---- MODULE Spec2Model ----
(***************************************************************************)
(* Model of the spaced-repetition engine of Vocabulary_Text_App:           *)
(* WordTracker (src/voc_to_text.py) and the parts of VocabularyReviewer    *)
(* (src/vocabulary_reviewer.py) that feed it.                              *)
(*                                                                         *)
(* Strings are sequences of one-character strings, so that the store key   *)
(* f"{word}|{translation}" and its split at the first '|' are computed.    *)
(* Instants are integers counted in ticks, TicksPerDay ticks to a day;     *)
(* timedelta.days is the floor of the difference divided by one day.       *)
(***************************************************************************)
EXTENDS Integers, Sequences, FiniteSets, TLC

VARIABLES
    tracking_file,   \* the persisted tracking file: [state, data]
    word_stats,      \* WordTracker.word_stats: key -> [shape, word, translation, occurrences]
    now,             \* datetime.datetime.now(), in ticks
    last_priority,   \* the last calculate_word_priority call and its return value
    sel,             \* the last select_words_by_priority call: inputs, sample, ranking, return value
    last_mark,       \* the last mark_word_used / mark_word_not_understood call, and how many were made
    disk,            \* what load and save met: [load_raised, save_calls, outcome, save_raised, fresh, at_start]
    reviewer         \* the VocabularyReviewer of the session, and what the user did in it

vars == <<tracking_file, word_stats, now, last_priority, sel, last_mark, disk, reviewer>>

(***************************************************************************)
(* Bounds of the model.                                                    *)
(***************************************************************************)
\* Resolution of the clock: ticks in one day.
TicksPerDay == 2
\* Most occurrences recorded after load in one run.
MaxMarks == 3
\* Longest history the priority function is applied to in SpecPrio.
MaxHist == 17
\* Most repeat = true occurrences of a history in SpecPrio.
MaxRepeat == 6
\* Length of the long candidate list of SpecSelect (above the sample size of 40).
BigLen == 41
\* Counts handed to select_words_by_priority range over -MaxCount..MaxCount (and 20, 40, BigLen).
MaxCount == 3
\* Most save_tracking_data calls between two loads.
MaxSaves == 2
\* Most occurrences recorded in one run of SpecStore.
MaxStoreMarks == 2
\* Most presses of Finish / Generate New Text in one session.
MaxFinish == 2
\* Most save_tracking_data calls in one run of SpecOps.
MaxOpsSaves == 1

(***************************************************************************)
(* Strings.                                                                *)
(***************************************************************************)
Chat == <<"c", "h", "a", "t">>
Cat  == <<"c", "a", "t">>
Bonjour == <<"b", "o", "n", "j", "o", "u", "r">>
Hello == <<"h", "e", "l", "l", "o">>
Pron == <<"s", "h", "a">>
EmptyStr == <<>>
Hola == <<"h", "o", "l", "a">>
Goodbye == <<"g", "o", "o", "d", "b", "y", "e">>
Adios == <<"a", "d", "i", "ó", "s">>
Please == <<"p", "l", "e", "a", "s", "e">>
PorFavor == <<"p", "o", "r", " ", "f", "a", "v", "o", "r">>

\* The pairs the operations are called with.
Pairs == {<<Chat, Cat>>, <<Bonjour, Hello>>}

\* A variant that joins the two fields without a separator.
Key_joined(word, translation) == word \o translation
\* A variant that appends one "x" per character of the word, which tells the
\* fields apart whatever they hold.
Key_tagged(word, translation) ==
    word \o <<"|">> \o translation \o <<"/">> \o [i \in 1..Len(word) |-> "x"]
\* word_key = f"{word}|{translation}"
Key(word, translation) == word \o <<"|">> \o translation

\* Position of the first '|' of s, or 0 when it has none.
FirstBar(s) ==
    IF \E i \in 1..Len(s) : s[i] = "|"
    THEN CHOOSE i \in 1..Len(s) : s[i] = "|" /\ \A j \in 1..(i - 1) : s[j] # "|"
    ELSE 0

\* A variant splitting at every '|', as key.split('|') would.
SplitKey_every(key) ==
    LET b == FirstBar(key)
        rest == SubSeq(key, b + 1, Len(key))
        b2 == FirstBar(rest)
    IN IF b = 0 THEN <<key>>
       ELSE <<SubSeq(key, 1, b - 1), IF b2 = 0 THEN rest ELSE SubSeq(rest, 1, b2 - 1)>>
\* parts = key.split('|', 1)
SplitKey(key) ==
    LET b == FirstBar(key) IN
    IF b = 0 THEN <<key>>
    ELSE <<SubSeq(key, 1, b - 1), SubSeq(key, b + 1, Len(key))>>

(***************************************************************************)
(* The store: load.                                                        *)
(***************************************************************************)
Occ(date, repeat) == [date |-> date, repeat |-> repeat]

\* An occurrence whose date cannot be read: an object without a date field
\* ("no_date"), with a date string that is not ISO-8601 ("date_not_iso"), with a
\* date that is no string ("date_not_string"), or a value that is no object at
\* all ("not_an_object", which has no repeat field: FALSE stands for that).
BadOccForms == {"no_date", "date_not_iso", "date_not_string", "not_an_object"}
BadOcc(form, repeat) == [form |-> form, repeat |-> repeat]

\* stats['occurrences'][-1]['date'] exists and fromisoformat reads it.
date_parses(occ) == "date" \in DOMAIN occ

\* isinstance(occ, dict)
is_object(occ) == "date" \in DOMAIN occ \/ occ.form # "not_an_object"

\* A value of the persisted mapping, and of word_stats, which holds the parsed
\* values as they are: shape "record" is an object with a list-valued occurrences
\* field; "no_occurrences" an object without that field; "bad_occurrences" an
\* object whose occurrences is no list (null, a string, ...); "not_a_dict" any
\* other value. The last three are what _validate_and_fix_data calls corrupted.
Entry(shape, word, translation, occurrences) ==
    [shape |-> shape, word |-> word, translation |-> translation, occurrences |-> occurrences]

EmptyStats == [k \in {} |-> Entry("record", EmptyStr, EmptyStr, <<>>)]

\* A variant that keeps every entry as parsed.
validate_and_fix_data_keep(data) == data
\* _validate_and_fix_data
validate_and_fix_data(data) ==
    [key \in DOMAIN data |->
        IF data[key].shape = "record"
        THEN data[key]
        ELSE LET parts == SplitKey(key) IN
             Entry("record",
                   IF Len(parts) > 0 THEN parts[1] ELSE EmptyStr,
                   IF Len(parts) > 1 THEN parts[2] ELSE EmptyStr,
                   <<>>)]

\* What the tracking file can be: absent; unreadable (open() raises an OSError
\* other than FileNotFoundError); undecodable (not UTF-8: read() raises
\* UnicodeDecodeError); invalid JSON; valid JSON whose top-level value is a list,
\* a number, a string or null; or a JSON object, whose mapping is `data`.
FileStates ==
    {"absent", "unreadable", "undecodable", "invalid_json",
     "json_list", "json_number", "json_string", "json_null", "object"}

\* load_tracking_data raises: line 205 catches json.JSONDecodeError and
\* FileNotFoundError only, so the errors of open() and read() pass through, and
\* so does the AttributeError of data.items() (line 212) on a value that is no dict.
load_raises(file) ==
    file.state \in {"unreadable", "undecodable", "json_list", "json_number", "json_string", "json_null"}

\* load_tracking_data: the mapping it returns (when it raises, word_stats is
\* never assigned; the empty mapping stands for that).
load_tracking_data(file) ==
    IF file.state = "object" THEN validate_and_fix_data(file.data)
    ELSE EmptyStats

(***************************************************************************)
(* The store: save.                                                        *)
(***************************************************************************)
\* What a save_tracking_data call can meet: the dump completes ("ok"); open()
\* raises and the file is untouched ("open_failed"); the write raises after
\* open(..., 'w') truncated the file ("write_failed").
SaveOutcomes == {"ok", "open_failed", "write_failed"}

\* A variant that catches the error and reports nothing.
save_tracking_data_swallow(file, stats_map, outcome) ==
    [file |-> CASE outcome = "ok" -> [state |-> "object", data |-> stats_map]
                [] outcome = "open_failed" -> file
                [] OTHER -> [state |-> "invalid_json", data |-> EmptyStats],
     raised |-> FALSE]
\* A variant that leaves out the records without occurrences.
save_tracking_data_drop_empty(file, stats_map, outcome) ==
    [file |-> CASE outcome = "ok" ->
                     [state |-> "object",
                      data |-> [k \in {j \in DOMAIN stats_map : stats_map[j].occurrences # <<>>}
                                    |-> stats_map[k]]]
                [] outcome = "open_failed" -> file
                [] OTHER -> [state |-> "invalid_json", data |-> EmptyStats],
     raised |-> outcome # "ok"]
\* save_tracking_data: the file it leaves and whether the call raised. There is
\* no try/except: json.dump writes word_stats as it is, and an error propagates.
save_tracking_data(file, stats_map, outcome) ==
    [file |-> CASE outcome = "ok" -> [state |-> "object", data |-> stats_map]
                [] outcome = "open_failed" -> file
                [] OTHER -> [state |-> "invalid_json", data |-> EmptyStats],
     raised |-> outcome # "ok"]

(***************************************************************************)
(* Priority.                                                               *)
(***************************************************************************)
\* sum(1 for occ in stats['occurrences'] if ... occ.get('repeat', False))
RECURSIVE times_not_understood(_)
times_not_understood(occurrences) ==
    IF occurrences = <<>> THEN 0
    ELSE (IF is_object(occurrences[Len(occurrences)]) /\ occurrences[Len(occurrences)].repeat
          THEN 1 ELSE 0)
         + times_not_understood(SubSeq(occurrences, 1, Len(occurrences) - 1))

Min(a, b) == IF a < b THEN a ELSE b
Max(a, b) == IF a > b THEN a ELSE b

\* (datetime.datetime.now() - datetime.datetime.fromisoformat(last_used_date)).days
days_since_ticks(clock, date) == clock - date
days_since(clock, date) == (clock - date) \div TicksPerDay

\* A variant that takes an unreadable date for today's.
days_since_last_use_today(occurrences, clock) ==
    IF occurrences # <<>>
    THEN IF date_parses(occurrences[Len(occurrences)])
         THEN days_since(clock, occurrences[Len(occurrences)].date)
         ELSE 0
    ELSE 999
\* Lines 249-256: the except clause catches the KeyError of a missing date, the
\* ValueError of fromisoformat, and the TypeError of a date or an occurrence of
\* another type.
days_since_last_use(occurrences, clock) ==
    IF occurrences # <<>>
    THEN IF date_parses(occurrences[Len(occurrences)])
         THEN days_since(clock, occurrences[Len(occurrences)].date)
         ELSE 999
    ELSE 999

base_priority_uncapped(days) == days * 5
base_priority(days) == Min(days * 5, 50)

misunderstanding_bonus_double(n) == IF n = 0 THEN 0 ELSE 20 * (2 * n - 1)
misunderstanding_bonus_ten(n) == n * 10
misunderstanding_bonus(n) == n * 20

frequency_penalty_uncapped(times_used) == times_used * 2
frequency_penalty(times_used) == Min(times_used * 2, 30)

clamp_priority_zero(priority) == Max(priority, 0)
clamp_priority(priority) == Max(priority, 1)

\* A variant that empties the list of every record it meets.
ensure_occurrences_reset(stats) ==
    [stats EXCEPT !.shape = "record", !.occurrences = <<>>]
\* Lines 244-246: a record without a list of occurrences gets an empty one.
ensure_occurrences(stats) ==
    IF stats.shape = "record" THEN stats
    ELSE [stats EXCEPT !.shape = "record", !.occurrences = <<>>]

\* Lines 248-268: the score of a recorded pair.
recorded_priority(occurrences, clock) ==
    LET days == days_since_last_use(occurrences, clock)
        times_used == Len(occurrences)
        priority == base_priority(days)
                    + misunderstanding_bonus(times_not_understood(occurrences))
                    - frequency_penalty(times_used)
    IN clamp_priority(priority)

calculate_word_priority_new50(stats_map, clock, word, translation) ==
    LET word_key == Key(word, translation) IN
    IF word_key \notin DOMAIN stats_map THEN 50
    ELSE recorded_priority(ensure_occurrences(stats_map[word_key]).occurrences, clock)
calculate_word_priority(stats_map, clock, word, translation) ==
    LET word_key == Key(word, translation) IN
    IF word_key \notin DOMAIN stats_map THEN 100
    ELSE recorded_priority(ensure_occurrences(stats_map[word_key]).occurrences, clock)

\* A variant that files an empty record for a pair it does not know.
stats_after_priority_insert(stats_map, word, translation) ==
    LET word_key == Key(word, translation) IN
    IF word_key \notin DOMAIN stats_map
    THEN stats_map @@ (word_key :> Entry("record", word, translation, <<>>))
    ELSE [stats_map EXCEPT ![word_key] = ensure_occurrences(@)]
\* word_stats after calculate_word_priority(word, translation): lines 245-246
\* write the empty list into the record they repair.
stats_after_priority(stats_map, word, translation) ==
    LET word_key == Key(word, translation) IN
    IF word_key \notin DOMAIN stats_map THEN stats_map
    ELSE [stats_map EXCEPT ![word_key] = ensure_occurrences(@)]

(***************************************************************************)
(* Recording occurrences.                                                  *)
(***************************************************************************)
\* A variant that keeps only the newest occurrence of a recorded pair.
add_occurrence_overwrite(stats_map, clock, word, translation, repeat) ==
    LET word_key == Key(word, translation)
        occurrence == Occ(clock, repeat)
    IN IF word_key \notin DOMAIN stats_map
       THEN stats_map @@ (word_key :> Entry("record", word, translation, <<occurrence>>))
       ELSE [stats_map EXCEPT ![word_key] = Entry("record", word, translation, <<occurrence>>)]
\* _add_occurrence
add_occurrence(stats_map, clock, word, translation, repeat) ==
    LET word_key == Key(word, translation)
        occurrence == Occ(clock, repeat)
    IN IF word_key \notin DOMAIN stats_map
       THEN stats_map @@ (word_key :> Entry("record", word, translation, <<occurrence>>))
       ELSE [stats_map EXCEPT
                ![word_key] = [ensure_occurrences(@) EXCEPT
                                  !.occurrences = Append(ensure_occurrences(stats_map[word_key]).occurrences,
                                                         occurrence)]]

NoPriority == [called |-> FALSE, word |-> EmptyStr, translation |-> EmptyStr, value |-> 0]
NoSelect == [called |-> FALSE, vocab_list |-> <<>>, count |-> 0, sampled |-> <<>>,
             word_priorities |-> <<>>, report |-> <<>>, returned |-> <<>>]
NoMark == [called |-> FALSE, word |-> EmptyStr, translation |-> EmptyStr, repeat |-> FALSE, n |-> 0]
\* No reviewer window yet.
NoReviewer == [view |-> "none", vocab_list |-> <<>>, difficult_words |-> {}, toggled |-> {},
               save_allowed |-> FALSE, review_complete |-> FALSE, ended_by |-> "none",
               finish_presses |-> 0,
               push |-> "none",          \* the push thread: none, running, done, abandoned
               process |-> "running",    \* the interpreter: running, exited
               returned |-> "nothing",   \* what run_vocabulary_review returned: nothing, true, false
               reported |-> "nothing"]   \* what _run_vocabulary_review printed: nothing, completed, cancelled
\* The tracker right after its construction from `file`.
DiskAtStart(file) ==
    [load_raised |-> load_raises(file), save_calls |-> 0, outcome |-> "none", save_raised |-> FALSE,
     fresh |-> TRUE, at_start |-> file]

\* Instants the clock is observed at: the start, less than a day later, one day
\* later, ten days later (where the age term saturates).
Instants == {0, 1, TicksPerDay, 10 * TicksPerDay}

\* Persisted tracking files found at start.
PersistedFiles ==
    { [state |-> "absent", data |-> EmptyStats],
      [state |-> "object", data |-> EmptyStats],
      [state |-> "object",
       data |-> (Key(Chat, Cat) :> Entry("record", Chat, Cat, <<Occ(0, TRUE), Occ(0, TRUE)>>))],
      [state |-> "object",
       data |-> (Key(Chat, Cat) :> Entry("record", Chat, Cat, <<Occ(10 * TicksPerDay, FALSE)>>))],
      [state |-> "object",
       data |-> (Key(Bonjour, Hello) :> Entry("no_occurrences", EmptyStr, EmptyStr, <<>>))] }

Init ==
    /\ tracking_file \in PersistedFiles
    /\ word_stats = load_tracking_data(tracking_file)
    /\ now = 0
    /\ last_priority = NoPriority
    /\ sel = NoSelect
    /\ last_mark = NoMark
    /\ disk = DiskAtStart(tracking_file)
    /\ reviewer = NoReviewer

RECURSIVE TotalOcc(_)
TotalOcc(stats_map) ==
    IF DOMAIN stats_map = {} THEN 0
    ELSE LET k == CHOOSE k \in DOMAIN stats_map : TRUE IN
         Len(stats_map[k].occurrences)
         + TotalOcc([j \in DOMAIN stats_map \ {k} |-> stats_map[j]])

CanMark == last_mark.n < MaxMarks

\* The call mark_word_used (repeat = FALSE) or mark_word_not_understood (TRUE).
MarkCall(word, translation, repeat) ==
    [called |-> TRUE, word |-> word, translation |-> translation, repeat |-> repeat,
     n |-> last_mark.n + 1]

mark_word_used ==
    \E p \in Pairs :
        /\ CanMark
        /\ word_stats' = add_occurrence(word_stats, now, p[1], p[2], FALSE)
        /\ last_mark' = MarkCall(p[1], p[2], FALSE)
        /\ last_priority' = NoPriority
        /\ sel' = NoSelect
        /\ disk' = [disk EXCEPT !.fresh = FALSE]
        /\ UNCHANGED <<tracking_file, now, reviewer>>

mark_word_not_understood ==
    \E p \in Pairs :
        /\ CanMark
        /\ word_stats' = add_occurrence(word_stats, now, p[1], p[2], TRUE)
        /\ last_mark' = MarkCall(p[1], p[2], TRUE)
        /\ last_priority' = NoPriority
        /\ sel' = NoSelect
        /\ disk' = [disk EXCEPT !.fresh = FALSE]
        /\ UNCHANGED <<tracking_file, now, reviewer>>

\* Time passes between two calls.
Tick ==
    /\ \E t \in Instants : t > now /\ now' = t
    /\ last_priority' = NoPriority
    /\ sel' = NoSelect
    /\ UNCHANGED <<tracking_file, word_stats, last_mark, disk, reviewer>>

PriorityCall ==
    \E p \in Pairs :
        /\ last_priority' = [called |-> TRUE, word |-> p[1], translation |-> p[2],
                             value |-> calculate_word_priority(word_stats, now, p[1], p[2])]
        /\ word_stats' = stats_after_priority(word_stats, p[1], p[2])
        /\ sel' = NoSelect
        /\ UNCHANGED <<tracking_file, now, last_mark, disk, reviewer>>

Next == mark_word_used \/ mark_word_not_understood \/ Tick \/ PriorityCall

Spec == Init /\ [][Next]_vars

(***************************************************************************)
(* Selection.                                                              *)
(***************************************************************************)
\* The outcomes of random.sample(vocab_list, k) as sequences of k distinct
\* positions of a list of n entries: every one of them for a list of at most
\* four entries; for a longer list the first k positions of the walks
\* b, b + a, b + 2a, ... (mod n) with step a = 1 or a = n - 1 from every start b.
random_sample(n, k) ==
    IF n <= 4
    THEN {s \in [1..k -> 1..n] : \A i, j \in 1..k : i # j => s[i] # s[j]}
    ELSE {[i \in 1..k |-> ((a * (i - 1) + b) % n) + 1] : a \in {1, n - 1}, b \in 0..(n - 1)}

sample_size(vocab_list) == Min(40, Len(vocab_list))

\* pronunciation = vocab_entry[2] if len(vocab_entry) > 2 else ""
pronunciation_last(vocab_entry) == vocab_entry[Len(vocab_entry)]
pronunciation_of(vocab_entry) == IF Len(vocab_entry) > 2 THEN vocab_entry[3] ELSE EmptyStr

\* Lines 311-317: one scored entry per sampled position (pos records the position
\* the entry was drawn from; the code's tuple does not carry it).
score_sample(stats_map, clock, vocab_list, sampled) ==
    [i \in 1..Len(sampled) |->
        LET vocab_entry == vocab_list[sampled[i]] IN
        [word |-> vocab_entry[1],
         translation |-> vocab_entry[2],
         pronunciation |-> pronunciation_of(vocab_entry),
         priority |-> calculate_word_priority(stats_map, clock, vocab_entry[1], vocab_entry[2]),
         pos |-> sampled[i]]]

\* A variant that puts x before the elements of its own priority.
RECURSIVE insert_desc_before_equals(_, _)
insert_desc_before_equals(sorted, x) ==
    IF sorted = <<>> THEN <<x>>
    ELSE IF sorted[Len(sorted)].priority > x.priority THEN Append(sorted, x)
    ELSE Append(insert_desc_before_equals(SubSeq(sorted, 1, Len(sorted) - 1), x), sorted[Len(sorted)])
\* x put into the descending list after every element whose priority is not below x's.
RECURSIVE insert_desc(_, _)
insert_desc(sorted, x) ==
    IF sorted = <<>> THEN <<x>>
    ELSE IF sorted[Len(sorted)].priority >= x.priority THEN Append(sorted, x)
    ELSE Append(insert_desc(SubSeq(sorted, 1, Len(sorted) - 1), x), sorted[Len(sorted)])

RECURSIVE insert_asc(_, _)
insert_asc(sorted, x) ==
    IF sorted = <<>> THEN <<x>>
    ELSE IF sorted[Len(sorted)].priority <= x.priority THEN Append(sorted, x)
    ELSE Append(insert_asc(SubSeq(sorted, 1, Len(sorted) - 1), x), sorted[Len(sorted)])

RECURSIVE sort_ascending(_)
sort_ascending(word_priorities) ==
    IF word_priorities = <<>> THEN <<>>
    ELSE insert_asc(sort_ascending(SubSeq(word_priorities, 1, Len(word_priorities) - 1)),
                    word_priorities[Len(word_priorities)])

\* word_priorities.sort(key=lambda x: x[3], reverse=True): a stable sort, equal
\* priorities keep their order.
RECURSIVE sort_by_priority(_)
sort_by_priority(word_priorities) ==
    IF word_priorities = <<>> THEN <<>>
    ELSE insert_desc(sort_by_priority(SubSeq(word_priorities, 1, Len(word_priorities) - 1)),
                     word_priorities[Len(word_priorities)])

\* word_priorities[:count], a negative count counting from the end.
slice_to(seq, count) ==
    IF count >= 0 THEN SubSeq(seq, 1, Min(count, Len(seq)))
    ELSE SubSeq(seq, 1, Max(Len(seq) + count, 0))

\* [(w, t, pron) for w, t, pron, _ in word_priorities[:count]]
selected_words(word_priorities, count) ==
    LET top == slice_to(word_priorities, count) IN
    [i \in 1..Len(top) |-> <<top[i].word, top[i].translation, top[i].pronunciation>>]

\* max(p for _, _, _, p in word_priorities)
max_urgency(word_priorities) ==
    CHOOSE m \in {word_priorities[i].priority : i \in 1..Len(word_priorities)} :
        \A i \in 1..Len(word_priorities) : word_priorities[i].priority <= m

\* A variant whose bars are relative to a priority of 100.
bar_len_of_hundred(priority, top) == (priority * 40) \div 100
\* int((priority / max_urgency) * 40): the quotient and the product are floating
\* point, and the truncation of the result is the integer floor of
\* 40 * priority / max_urgency for the priorities 1 <= priority <= max_urgency
\* that reach it.
bar_len(priority, top) == (priority * 40) \div top

\* _print_urgency_bars: the lines printed, one [bar_len, marked] per ranked item
\* (nothing is printed for an empty ranking).
print_urgency_bars(word_priorities, count) ==
    IF word_priorities = <<>> THEN <<>>
    ELSE [i \in 1..Len(word_priorities) |->
             [bar_len |-> bar_len(word_priorities[i].priority, max_urgency(word_priorities)),
              marked |-> (i - 1) < count]]

\* A variant that answers an empty candidate list with a placeholder entry.
select_words_by_priority_placeholder(stats_map, clock, vocab_list, count, sampled) ==
    IF vocab_list = <<>>
    THEN [called |-> TRUE, vocab_list |-> vocab_list, count |-> count, sampled |-> <<>>,
          word_priorities |-> <<>>, report |-> <<>>, returned |-> << <<EmptyStr, EmptyStr, EmptyStr>> >>]
    ELSE LET word_priorities == sort_by_priority(score_sample(stats_map, clock, vocab_list, sampled))
         IN [called |-> TRUE, vocab_list |-> vocab_list, count |-> count, sampled |-> sampled,
             word_priorities |-> word_priorities,
             report |-> print_urgency_bars(word_priorities, count),
             returned |-> selected_words(word_priorities, count)]
\* select_words_by_priority with the sample that random.sample drew.
select_words_by_priority(stats_map, clock, vocab_list, count, sampled) ==
    IF vocab_list = <<>>
    THEN [called |-> TRUE, vocab_list |-> vocab_list, count |-> count, sampled |-> <<>>,
          word_priorities |-> <<>>, report |-> <<>>, returned |-> <<>>]
    ELSE LET word_priorities == sort_by_priority(score_sample(stats_map, clock, vocab_list, sampled))
         IN [called |-> TRUE, vocab_list |-> vocab_list, count |-> count, sampled |-> sampled,
             word_priorities |-> word_priorities,
             report |-> print_urgency_bars(word_priorities, count),
             returned |-> selected_words(word_priorities, count)]

\* word_stats after select_words_by_priority: every scored entry went through
\* calculate_word_priority (line 316).
RECURSIVE stats_after_select(_, _, _)
stats_after_select(stats_map, vocab_list, sampled) ==
    IF vocab_list = <<>> \/ sampled = <<>> THEN stats_map
    ELSE LET vocab_entry == vocab_list[sampled[Len(sampled)]] IN
         stats_after_priority(
             stats_after_select(stats_map, vocab_list, SubSeq(sampled, 1, Len(sampled) - 1)),
             vocab_entry[1], vocab_entry[2])

\* VocabularyReviewer.__init__: the review list of (source, target, pronunciation).
reviewer_vocab_list(vocab_list) ==
    [i \in 1..Len(vocab_list) |->
        IF Len(vocab_list[i]) = 2
        THEN <<vocab_list[i][1], vocab_list[i][2], EmptyStr>>
        ELSE <<vocab_list[i][1], vocab_list[i][2], vocab_list[i][3]>>]

(***************************************************************************)
(* SpecPrio: calculate_word_priority applied to one record whose history   *)
(* is drawn from a bounded family, under a clock drawn from a bounded set. *)
(***************************************************************************)
\* A history of n_false repeat = false and n_true repeat = true occurrences in the
\* given order, all dated `first` but the last one, dated `last`.
History(n_false, n_true, order, first, last) ==
    LET n == n_false + n_true IN
    [i \in 1..n |->
        Occ(IF i = n THEN last ELSE first,
            CASE order = "false_first" -> i > n_false
              [] order = "true_first"  -> i <= n_true
              [] OTHER -> IF n_true >= n_false
                          THEN (i > 2 * n_false \/ i % 2 = 1)
                          ELSE (i <= 2 * n_true /\ i % 2 = 0))]

Histories ==
    { History(nf, nt, order, d[1], d[2]) :
        nf \in 0..MaxHist, nt \in 0..MaxRepeat,
        order \in {"false_first", "true_first", "mixed"},
        d \in {<<0, 0>>, <<0, TicksPerDay>>, <<0, 10 * TicksPerDay>>} }

PrioInstants == Instants \cup {3 * TicksPerDay, 6 * TicksPerDay + 1, 12 * TicksPerDay}

InitPrio ==
    /\ tracking_file = [state |-> "absent", data |-> EmptyStats]
    /\ \E h \in Histories :
          /\ Len(h) <= MaxHist
          /\ word_stats = (Key(Chat, Cat) :> Entry("record", Chat, Cat, h))
    /\ now \in PrioInstants
    /\ last_priority = NoPriority
    /\ sel = NoSelect
    /\ last_mark = NoMark
    /\ disk = DiskAtStart(tracking_file)
    /\ reviewer = NoReviewer

NextPrio == PriorityCall

SpecPrio == InitPrio /\ [][NextPrio]_vars

(***************************************************************************)
(* Properties of calculate_word_priority (checked under SpecPrio).         *)
(***************************************************************************)
\* The record the last call looked up, when it has one.
CalledKey == Key(last_priority.word, last_priority.translation)
CalledRecorded == last_priority.called /\ CalledKey \in DOMAIN word_stats
CalledOcc == word_stats[CalledKey].occurrences

\* Number of occurrences of O with repeat = true.
RepeatCount(O) == Cardinality({i \in 1..Len(O) : O[i].repeat})

\* Whole days from `date` to `clock`: the q with q days <= clock - date < q + 1 days.
WholeDays(clock, date) ==
    CHOOSE q \in -1000..1000 :
        q * TicksPerDay <= clock - date /\ clock - date < (q + 1) * TicksPerDay

AgeDays(O, clock) == IF O = <<>> THEN 999 ELSE WholeDays(clock, O[Len(O)].date)

\* The score before the clamp to the minimum of 1.
RawScore(O, clock) ==
    Min(AgeDays(O, clock) * 5, 50) + 20 * RepeatCount(O) - Min(2 * Len(O), 30)

\* The priority of the called pair if its record held the occurrences O instead.
PriorityWith(O) ==
    calculate_word_priority(
        [word_stats EXCEPT ![CalledKey].occurrences = O],
        now, last_priority.word, last_priority.translation)

\* C1: for a recorded pair with occurrence list O, the priority is
\* max(min(d*5, 50) + 20*r - min(2*|O|, 30), 1), r the number of repeat = true
\* occurrences, d the whole days since the last occurrence, or 999 when O is empty.
C1_PriorityFormula ==
    CalledRecorded =>
        last_priority.value = Max(RawScore(CalledOcc, now), 1)

\* C1 witness: a call on a history with both kinds of occurrence, an age of some
\* but fewer than ten days, and a score above the minimum.
C1_Witness ==
    /\ CalledRecorded
    /\ RepeatCount(CalledOcc) > 0
    /\ RepeatCount(CalledOcc) < Len(CalledOcc)
    /\ AgeDays(CalledOcc, now) \in 1..9
    /\ last_priority.value > 1

\* C4: for every recorded pair and every clock, a last occurrence dated in the
\* future included, 1 <= priority <= 50 + 20*m, m the number of repeat = true
\* occurrences of the record.
C4_PriorityBounds ==
    CalledRecorded =>
        /\ 1 <= last_priority.value
        /\ last_priority.value <= 50 + 20 * RepeatCount(CalledOcc)

\* C4 witness: a call on a record whose last occurrence lies in the future and
\* whose score is above the minimum.
C4_Witness ==
    /\ CalledRecorded
    /\ CalledOcc # <<>>
    /\ CalledOcc[Len(CalledOcc)].date > now
    /\ last_priority.value > 1

\* The history O with occurrence i turned into a misunderstanding.
WithRepeat(O, i) == [O EXCEPT ![i].repeat = TRUE]

\* C5: turning one repeat = false occurrence into repeat = true, the length, the
\* dates and the clock unchanged, raises the priority by exactly 20, unless the
\* lower score was clamped up to the minimum of 1.
C5_MisunderstandingAddsTwenty ==
    CalledRecorded =>
        \A i \in 1..Len(CalledOcc) :
            (~CalledOcc[i].repeat /\ RawScore(CalledOcc, now) >= 1)
                => PriorityWith(WithRepeat(CalledOcc, i)) = last_priority.value + 20

\* C5 witness: a call on a history with a repeat = false occurrence and an
\* unclamped score.
C5_Witness ==
    /\ CalledRecorded
    /\ \E i \in 1..Len(CalledOcc) : ~CalledOcc[i].repeat
    /\ RepeatCount(CalledOcc) > 0
    /\ RawScore(CalledOcc, now) >= 1

\* The history O with one more repeat = false occurrence, dated as its last one.
OneMoreUse(O) == Append(O, Occ(O[Len(O)].date, FALSE))

OnlyUses(O) == O # <<>> /\ RepeatCount(O) = 0

\* C6 as claimed: among histories of repeat = false occurrences only, one more
\* occurrence lowers the priority by exactly 2 while the history has fewer than
\* 15 occurrences, and from 15 on leaves it unchanged.
C6_Claimed ==
    (CalledRecorded /\ OnlyUses(CalledOcc)) =>
        PriorityWith(OneMoreUse(CalledOcc)) =
            IF Len(CalledOcc) < 15 THEN last_priority.value - 2 ELSE last_priority.value

\* C6 amended: one more repeat = false occurrence lowers the priority by exactly 2
\* while the history has fewer than 15 occurrences and the score after the
\* addition, min(5d, 50) - 2(n + 1), is still at least 1; when that score is below
\* 1 the priority after the addition is the minimum 1; from 15 occurrences on the
\* priority is unchanged.
C6_UsePenalty ==
    (CalledRecorded /\ OnlyUses(CalledOcc)) =>
        LET n == Len(CalledOcc)
            after == Min(AgeDays(CalledOcc, now) * 5, 50) - 2 * (n + 1)
        IN PriorityWith(OneMoreUse(CalledOcc)) =
               IF n >= 15 THEN last_priority.value
               ELSE IF after >= 1 THEN last_priority.value - 2
               ELSE 1

\* C6 witness: a call on a saturated-age history of 15 or more uses, where the
\* penalty is capped, with a score above the minimum.
C6_Witness ==
    /\ CalledRecorded
    /\ OnlyUses(CalledOcc)
    /\ Len(CalledOcc) >= 15
    /\ last_priority.value = 20

(***************************************************************************)
(* Properties of the store after load and marks (checked under Spec).      *)
(***************************************************************************)
\* C2 as claimed: after load and any marks, for every pair, recorded or not, the
\* priority is an integer in [1, 100].
C2_Claimed ==
    last_priority.called => last_priority.value \in 1..100

\* C2 amended: the priority is an integer in [1, max(100, 50 + 20*m)], m the number
\* of repeat = true occurrences of the pair's record (0 when it has none).
C2_PriorityRange ==
    last_priority.called =>
        LET m == IF CalledRecorded THEN RepeatCount(CalledOcc) ELSE 0 IN
        last_priority.value \in 1..Max(100, 50 + 20 * m)

\* C2 witness: a call that returns more than 100, for a pair marked after load.
C2_Witness ==
    /\ CalledRecorded
    /\ last_mark.n > 0
    /\ last_priority.value > 100

\* C3: a pair whose key is not in the store has priority exactly 100, whatever
\* the clock and whatever other pairs are recorded.
C3_NewPairIsHundred ==
    (last_priority.called /\ CalledKey \notin DOMAIN word_stats) =>
        last_priority.value = 100

\* C3 witness: a call for an unrecorded pair, later than the start, while another
\* pair is recorded.
C3_Witness ==
    /\ last_priority.called
    /\ CalledKey \notin DOMAIN word_stats
    /\ DOMAIN word_stats # {}
    /\ now > 0

\* The called pair had no record at load and has been marked as not understood
\* once, and nothing else, since.
MarkedNotUnderstoodOnce ==
    /\ CalledRecorded
    /\ CalledKey \notin DOMAIN load_tracking_data(tracking_file)
    /\ Len(CalledOcc) = 1
    /\ CalledOcc[1].repeat

\* C7: for a pair without record, one mark_word_not_understood and then
\* calculate_word_priority less than one day later returns 18.
C7_MarkThenPriority ==
    (MarkedNotUnderstoodOnce /\ now - CalledOcc[1].date \in 0..(TicksPerDay - 1)) =>
        last_priority.value = 18

\* C7 witness: the call comes some time, but less than a day, after the mark.
C7_Witness ==
    /\ MarkedNotUnderstoodOnce
    /\ now - CalledOcc[1].date \in 1..(TicksPerDay - 1)
    /\ last_priority.value = 18

(***************************************************************************)
(* SpecSelect: select_words_by_priority on a loaded store.                 *)
(***************************************************************************)
\* A word of i letters, a different one for each i.
Word(i) == [j \in 1..i |-> "w"]

\* A candidate list of BigLen different entries, 2- and 3-element tuples in turn.
BigList ==
    [i \in 1..BigLen |->
        IF i = 1 THEN <<Chat, Cat, Pron>>
        ELSE IF i = 2 THEN <<Bonjour, Hello>>
        ELSE IF i % 2 = 0 THEN <<Word(i), Hello>>
        ELSE <<Word(i), Hello, Pron>>]

CandidateLists ==
    { <<>>,
      << <<Chat, Cat>> >>,
      << <<Chat, Cat, Pron>>, <<Bonjour, Hello>> >>,
      << <<Bonjour, Hello>>, <<Chat, Cat, Pron>>, <<Chat, Cat>> >>,
      << <<Word(3), Hello>>, <<Chat, Cat, Pron>>, <<Bonjour, Hello, Pron>>, <<Hello, Bonjour>> >>,
      BigList }

Counts == (-MaxCount..MaxCount) \cup {20, 40, BigLen + 1, -40, -BigLen}

SelectFiles ==
    PersistedFiles \cup
    { [state |-> "object",
       data |-> (Key(Chat, Cat) :> Entry("record", Chat, Cat, <<Occ(0, TRUE), Occ(0, TRUE)>>))
                @@ (Key(Bonjour, Hello) :> Entry("record", Bonjour, Hello, <<Occ(0, FALSE)>>))
                @@ (Key(Word(3), Hello) :> Entry("record", Word(3), Hello,
                                                 <<Occ(0, TRUE), Occ(0, TRUE), Occ(0, TRUE)>>))
                @@ (Key(Word(4), Hello) :> Entry("record", Word(4), Hello, <<Occ(0, TRUE), Occ(0, TRUE)>>))] }

InitSelect ==
    /\ tracking_file \in SelectFiles
    /\ word_stats = load_tracking_data(tracking_file)
    /\ now \in {0, 10 * TicksPerDay}
    /\ last_priority = NoPriority
    /\ sel = NoSelect
    /\ last_mark = NoMark
    /\ disk = DiskAtStart(tracking_file)
    /\ reviewer = NoReviewer

\* run_session, line 433: the one selection of a session.
SelectCall ==
    \E vocab_list \in CandidateLists, count \in Counts :
        \E sampled \in random_sample(Len(vocab_list), sample_size(vocab_list)) :
            /\ ~sel.called
            /\ sel' = select_words_by_priority(word_stats, now, vocab_list, count, sampled)
            /\ word_stats' = stats_after_select(word_stats, vocab_list, sampled)
            /\ UNCHANGED <<tracking_file, now, last_priority, last_mark, disk, reviewer>>

NextSelect == SelectCall

SpecSelect == InitSelect /\ [][NextSelect]_vars

(***************************************************************************)
(* Properties of select_words_by_priority (checked under SpecSelect).      *)
(***************************************************************************)
\* The priority of the candidate at position pos of the list of the last call.
CandidatePriority(pos) ==
    calculate_word_priority(word_stats, now, sel.vocab_list[pos][1], sel.vocab_list[pos][2])

\* The (source, target, pronunciation) triple of a candidate, "" for a missing
\* pronunciation.
Triple(entry) == <<entry[1], entry[2], IF Len(entry) = 2 THEN EmptyStr ELSE entry[3]>>

\* The position the i-th returned item was drawn from.
ReturnedPos(i) == sel.word_priorities[i].pos

SampledSet == {sel.sampled[i] : i \in 1..Len(sel.sampled)}

\* C8 as claimed: for every candidate list and every integer count, zero and
\* negative ones included, no more than count items and no more than |candidates|
\* items are returned, so none when count <= 0.
C8_Claimed ==
    sel.called =>
        /\ Len(sel.returned) <= Max(sel.count, 0)
        /\ Len(sel.returned) <= Len(sel.vocab_list)

\* C9: for count >= 0, a sample of exactly s = min(40, |candidates|) distinct
\* candidate positions is scored, and exactly min(count, s) items of the sample
\* are returned, in non-increasing priority order, no sampled item left out having
\* a strictly higher priority than a returned one.
C9_TopOfSample ==
    (sel.called /\ sel.count >= 0) =>
        LET s == Len(sel.sampled)
            k == Len(sel.returned)
        IN /\ s = Min(40, Len(sel.vocab_list))
           /\ SampledSet \subseteq 1..Len(sel.vocab_list)
           /\ Cardinality(SampledSet) = s
           /\ Len(sel.word_priorities) = s
           /\ {sel.word_priorities[i].pos : i \in 1..s} = SampledSet
           /\ \A i \in 1..s : sel.word_priorities[i].priority = CandidatePriority(ReturnedPos(i))
           /\ k = Min(sel.count, s)
           /\ \A i \in 1..k : sel.returned[i] = Triple(sel.vocab_list[ReturnedPos(i)])
           /\ \A i, j \in 1..k :
                 i < j => CandidatePriority(ReturnedPos(i)) >= CandidatePriority(ReturnedPos(j))
           /\ \A i \in 1..k : \A j \in (k + 1)..s :
                 CandidatePriority(ReturnedPos(j)) <= CandidatePriority(ReturnedPos(i))

\* C9 witness: a call on a list of more than 40 candidates that returns some but
\* not all items of the sample, of different priorities, and leaves out a sampled
\* item of lower priority than every returned one.
C9_Witness ==
    /\ sel.called
    /\ Len(sel.vocab_list) > 40
    /\ Len(sel.sampled) = 40
    /\ Len(sel.returned) \in 2..39
    /\ Len(sel.returned) = sel.count
    /\ CandidatePriority(ReturnedPos(1)) > CandidatePriority(ReturnedPos(Len(sel.returned)))
    /\ CandidatePriority(ReturnedPos(Len(sel.returned))) > CandidatePriority(ReturnedPos(40))

\* C10: every returned item is the (source, target, pronunciation) triple of a
\* candidate, no candidate position is returned twice, a 2-element candidate comes
\* back with pronunciation "", and 2- and 3-element candidates mix in one call;
\* the reviewer keeps the returned triples as they are.
C10_ReturnedAreCandidates ==
    sel.called =>
        LET k == Len(sel.returned) IN
        /\ k <= Len(sel.word_priorities)
        /\ \A i \in 1..k :
              /\ ReturnedPos(i) \in 1..Len(sel.vocab_list)
              /\ sel.returned[i] = Triple(sel.vocab_list[ReturnedPos(i)])
              /\ Len(sel.returned[i]) = 3
              /\ Len(sel.vocab_list[ReturnedPos(i)]) = 2 => sel.returned[i][3] = EmptyStr
        /\ \A i, j \in 1..k : i # j => ReturnedPos(i) # ReturnedPos(j)
        /\ reviewer_vocab_list(sel.returned) = sel.returned
        /\ \A i \in 1..k :
              reviewer_vocab_list(<<sel.vocab_list[ReturnedPos(i)]>>) = <<sel.returned[i]>>

\* C10 witness: a call that returns both a 2-element candidate, with pronunciation
\* "", and a 3-element candidate, with its own pronunciation.
C10_Witness ==
    /\ sel.called
    /\ \E i, j \in 1..Len(sel.returned) :
          /\ Len(sel.vocab_list[ReturnedPos(i)]) = 2
          /\ sel.returned[i][3] = EmptyStr
          /\ Len(sel.vocab_list[ReturnedPos(j)]) = 3
          /\ sel.returned[j][3] = Pron

\* C11: a selection from an empty candidate list returns the empty list, whatever
\* the count (positive, zero or negative), scores nothing, and leaves the store
\* as it was loaded.
C11_EmptyCandidates ==
    (sel.called /\ sel.vocab_list = <<>>) =>
        /\ sel.returned = <<>>
        /\ sel.word_priorities = <<>>
        /\ word_stats = load_tracking_data(tracking_file)

C11_Witness ==
    /\ sel.called
    /\ sel.vocab_list = <<>>
    /\ sel.count < 0
    /\ sel.returned = <<>>
    /\ DOMAIN word_stats # {}

(***************************************************************************)
(* Properties of mark_word_used / mark_word_not_understood (under Spec).   *)
(***************************************************************************)

MarkedKey == Key(last_mark.word, last_mark.translation)

\* What one mark call did to the store: the pair's list is the old one with one
\* occurrence appended, or a new record holds that single occurrence.
MarkStep ==
    last_mark'.n = last_mark.n + 1 =>
        LET word_key == Key(last_mark'.word, last_mark'.translation)
            occurrence == Occ(now, last_mark'.repeat)
        IN /\ word_key \in DOMAIN word_stats'
           /\ \A k \in DOMAIN word_stats : k # word_key => word_stats'[k] = word_stats[k]
           /\ DOMAIN word_stats' = DOMAIN word_stats \cup {word_key}
           /\ IF word_key \in DOMAIN word_stats
              THEN /\ Len(word_stats'[word_key].occurrences) = Len(word_stats[word_key].occurrences) + 1
                   /\ word_stats'[word_key].occurrences = Append(word_stats[word_key].occurrences, occurrence)
              ELSE word_stats'[word_key] = Entry("record", last_mark'.word, last_mark'.translation, <<occurrence>>)

\* C12: each mark call lengthens its pair's occurrence list by exactly one, the
\* new last occurrence carrying the current time and repeat = false (used) or
\* true (not understood); an absent pair gets a record with that word, that
\* translation and the single occurrence; n calls add n occurrences in all.
C12_MarkAppendsOne ==
    /\ [][MarkStep]_vars
    /\ [](TotalOcc(word_stats) = TotalOcc(load_tracking_data(tracking_file)) + last_mark.n)

C12_Witness ==
    /\ last_mark.n >= 2
    /\ last_mark.repeat
    /\ MarkedKey \notin DOMAIN load_tracking_data(tracking_file)
    /\ Len(word_stats[MarkedKey].occurrences) = 2
    /\ ~word_stats[MarkedKey].occurrences[1].repeat
    /\ word_stats[MarkedKey].occurrences[2] = Occ(now, TRUE)
    /\ now > 0

(***************************************************************************)
(* SpecStore: the store over every kind of tracking file: load, marks,     *)
(* priority queries, a selection, saves that succeed or fail, and the next *)
(* start of the program (a new WordTracker loading the file).              *)
(***************************************************************************)
NoBar == Chat
TwoBars == Key(Chat, Key(Cat, Pron))

StoreFile(state) == [state |-> state, data |-> EmptyStats]

\* Persisted object mappings: well-formed records, records whose fields are not
\* the key's components, and the corrupted shapes, under keys with one '|', none
\* and two.
StoreMappings ==
    { EmptyStats,
      (Key(Chat, Cat) :> Entry("record", Chat, Cat, <<Occ(0, TRUE), Occ(0, FALSE)>>))
         @@ (Key(Bonjour, Hello) :> Entry("no_occurrences", Bonjour, Hello, <<>>)),
      (Key(Chat, Cat) :> Entry("bad_occurrences", Chat, Cat, <<>>))
         @@ (Key(Bonjour, Hello) :> Entry("record", Bonjour, Hello, <<>>)),
      (Key(Bonjour, Hello) :> Entry("not_a_dict", EmptyStr, EmptyStr, <<>>)),
      (NoBar :> Entry("no_occurrences", EmptyStr, EmptyStr, <<>>))
         @@ (TwoBars :> Entry("bad_occurrences", EmptyStr, EmptyStr, <<>>)),
      (Key(Chat, Cat) :> Entry("record", Bonjour, Hello, <<Occ(0, FALSE)>>)) }

StoreFiles ==
    {StoreFile(state) : state \in FileStates \ {"object"}}
        \cup {[state |-> "object", data |-> data] : data \in StoreMappings}

InitStore ==
    /\ tracking_file \in StoreFiles
    /\ word_stats = load_tracking_data(tracking_file)
    /\ now = TicksPerDay
    /\ last_priority = NoPriority
    /\ sel = NoSelect
    /\ last_mark = NoMark
    /\ disk = DiskAtStart(tracking_file)
    /\ reviewer = NoReviewer

\* A tracker exists only when its constructor's load returned.
TrackerExists == ~disk.load_raised

StoreMarkUsed == TrackerExists /\ last_mark.n < MaxStoreMarks /\ mark_word_used

StoreMarkNotUnderstood == TrackerExists /\ last_mark.n < MaxStoreMarks /\ mark_word_not_understood

StorePriorityCall == TrackerExists /\ PriorityCall

\* The session's selection, on a short list.
StoreSelectCall ==
    \E vocab_list \in {<<>>, << <<Chat, Cat, Pron>>, <<Bonjour, Hello>> >>}, count \in {1, 20} :
        \E sampled \in random_sample(Len(vocab_list), sample_size(vocab_list)) :
            /\ TrackerExists
            /\ ~sel.called
            /\ sel' = select_words_by_priority(word_stats, now, vocab_list, count, sampled)
            /\ word_stats' = stats_after_select(word_stats, vocab_list, sampled)
            /\ last_priority' = NoPriority
            /\ disk' = [disk EXCEPT !.fresh = FALSE]
            /\ UNCHANGED <<tracking_file, now, last_mark, reviewer>>

\* save_tracking_data, with what the file system does to it.
Save ==
    \E outcome \in SaveOutcomes :
        LET saved == save_tracking_data(tracking_file, word_stats, outcome) IN
        /\ TrackerExists
        /\ disk.save_calls < MaxSaves
        /\ tracking_file' = saved.file
        /\ disk' = [disk EXCEPT !.save_calls = @ + 1, !.outcome = outcome,
                                !.save_raised = saved.raised, !.fresh = FALSE]
        /\ last_priority' = NoPriority
        /\ sel' = NoSelect
        /\ UNCHANGED <<word_stats, now, last_mark, reviewer>>

\* The next start of the program: WordTracker.__init__ loads the file again.
Reload ==
    /\ TrackerExists
    /\ disk.save_calls > 0
    /\ word_stats' = load_tracking_data(tracking_file)
    /\ disk' = DiskAtStart(tracking_file)
    /\ last_priority' = NoPriority
    /\ sel' = NoSelect
    /\ UNCHANGED <<tracking_file, now, last_mark, reviewer>>

NextStore ==
    \/ StoreMarkUsed
    \/ StoreMarkNotUnderstood
    \/ StorePriorityCall
    \/ StoreSelectCall
    \/ Save
    \/ Reload

SpecStore == InitStore /\ [][NextStore]_vars

(***************************************************************************)
(* Properties of the store (checked under SpecStore).                      *)
(***************************************************************************)

\* The store as a load has just left it.
JustLoaded == disk.fresh

\* C13 (as claimed): a load of an absent file, or of a file that holds no object
\* mapping (invalid JSON, a list, number, string or null at top level,
\* unreadable, undecodable), returns the empty mapping and raises nothing.
C13_Claimed ==
    (JustLoaded /\ tracking_file.state # "object") =>
        /\ ~disk.load_raised
        /\ word_stats = EmptyStats

HasBar(s) == \E i \in 1..Len(s) : s[i] = "|"

\* The record a corrupted entry under `key` is replaced by: the word is what
\* stands before the first '|' (so holds no '|'), the translation what stands
\* after it; a key without '|' is the word, with an empty translation.
IsRebuiltFrom(record, key) ==
    /\ record.shape = "record"
    /\ record.occurrences = <<>>
    /\ ~HasBar(record.word)
    /\ IF HasBar(key)
       THEN record.word \o <<"|">> \o record.translation = key
       ELSE record.word = key /\ record.translation = EmptyStr

\* C14: the load of a persisted object mapping returns a mapping with the same
\* keys; an entry that is an object with a list of occurrences is kept as it is;
\* any other entry is replaced by the record rebuilt from its key, with no
\* occurrences.
C14_LoadRepairs ==
    (JustLoaded /\ tracking_file.state = "object") =>
        /\ DOMAIN word_stats = DOMAIN tracking_file.data
        /\ \A key \in DOMAIN tracking_file.data :
              IF tracking_file.data[key].shape = "record"
              THEN word_stats[key] = tracking_file.data[key]
              ELSE IsRebuiltFrom(word_stats[key], key)

C14_Witness ==
    /\ JustLoaded
    /\ tracking_file.state = "object"
    /\ {NoBar, TwoBars} \subseteq DOMAIN word_stats
    /\ tracking_file.data[TwoBars].shape = "bad_occurrences"
    /\ word_stats[TwoBars] = Entry("record", Chat, Key(Cat, Pron), <<>>)
    /\ word_stats[NoBar] = Entry("record", Chat, EmptyStr, <<>>)

\* C15 (as claimed): every key of the store maps to a record whose word and
\* translation join to that key: word + '|' + translation = key.
C15_Claimed ==
    \A key \in DOMAIN word_stats :
        word_stats[key].word \o <<"|">> \o word_stats[key].translation = key

\* A valid mapping: every entry is a record with word, translation and a list
\* of {date, repeat} occurrences.
ValidMapping(m) == \A key \in DOMAIN m : m[key].shape = "record"

\* The step is a save_tracking_data call that completed.
SavedOk == disk'.save_calls = disk.save_calls + 1 /\ disk'.outcome = "ok"

SaveFailed == disk'.save_calls = disk.save_calls + 1 /\ disk'.outcome # "ok"

\* C17: a save_tracking_data call that cannot write the file raises to its
\* caller, and word_stats is after the call what it was before.
C17_SaveFailureSurfaces ==
    [][SaveFailed => (disk'.save_raised /\ word_stats' = word_stats)]_vars

C17_Witness ==
    /\ disk.outcome = "write_failed"
    /\ disk.save_raised
    /\ tracking_file.state = "invalid_json"
    /\ last_mark.n > 0
    /\ DOMAIN word_stats # {}

\* C20: every record of the store holds an occurrences field that is a list
\* (possibly empty), never missing and never null, whatever object mapping was
\* loaded and whatever marks, priority queries, selections and saves followed.
C20_OccurrencesIsList ==
    TrackerExists =>
        \A key \in DOMAIN word_stats :
            /\ word_stats[key].shape = "record"
            /\ word_stats[key].occurrences \in Seq([date : Nat, repeat : BOOLEAN])

C20_Witness ==
    /\ sel.called
    /\ sel.returned # <<>>
    /\ disk.save_calls > 0
    /\ last_mark.n > 0
    /\ \E key \in DOMAIN disk.at_start.data :
          /\ disk.at_start.data[key].shape = "bad_occurrences"
          /\ Len(word_stats[key].occurrences) = 1
    /\ \E key \in DOMAIN word_stats : word_stats[key].occurrences = <<>>

(***************************************************************************)
(* SpecSession: one session of the application: run_session selects and    *)
(* marks the words and opens the review window; the user passes to the     *)
(* tiles, toggles tiles, continues to the feedback view, and ends with     *)
(* Finish, Generate New Text, or by closing the window.                    *)
(***************************************************************************)
\* check_feedback, lines 474-478: the pairs put in place of an empty set.
DebugWords == {<<Hello, Hola>>, <<Goodbye, Adios>>, <<Please, PorFavor>>}

\* Vocabulary lists load_vocabulary returns.
SessionVocab ==
    { <<>>,
      << <<Chat, Cat, Pron>>, <<Bonjour, Hello, EmptyStr>> >>,
      << <<Hello, Hola, EmptyStr>>, <<Chat, Cat, Pron>> >> }

SessionFiles ==
    { [state |-> "absent", data |-> EmptyStats],
      [state |-> "object",
       data |-> (Key(Chat, Cat) :> Entry("record", Chat, Cat, <<Occ(0, TRUE), Occ(0, FALSE)>>))] }

InitSession ==
    /\ tracking_file \in SessionFiles
    /\ word_stats = load_tracking_data(tracking_file)
    /\ now = TicksPerDay
    /\ last_priority = NoPriority
    /\ sel = NoSelect
    /\ last_mark = NoMark
    /\ disk = DiskAtStart(tracking_file)
    /\ reviewer = NoReviewer

\* run_session, lines 440-442: mark_word_used for each selected entry, in order.
RECURSIVE mark_selected_used(_, _, _)
mark_selected_used(stats_map, clock, selected_vocab) ==
    IF selected_vocab = <<>> THEN stats_map
    ELSE mark_selected_used(
             add_occurrence(stats_map, clock, Head(selected_vocab)[1], Head(selected_vocab)[2], FALSE),
             clock, Tail(selected_vocab))

\* save_and_exit, lines 679-683: each entry of the session list is marked not
\* understood when its (source, target) is in difficult_words, used otherwise.
RECURSIVE record_feedback(_, _, _, _)
record_feedback(stats_map, clock, vocab_list, difficult_words) ==
    IF vocab_list = <<>> THEN stats_map
    ELSE LET source == Head(vocab_list)[1]
             target == Head(vocab_list)[2]
         IN record_feedback(
                add_occurrence(stats_map, clock, source, target,
                               <<source, target>> \in difficult_words),
                clock, Tail(vocab_list), difficult_words)

\* The last mark call of a run over `entries`, n calls later.
LastMarkOf(entries, repeat_of_last) ==
    [called |-> TRUE, word |-> entries[Len(entries)][1], translation |-> entries[Len(entries)][2],
     repeat |-> repeat_of_last, n |-> last_mark.n + Len(entries)]

\* run_session up to the opening of the review window: the selection of 20, the
\* marks, and VocabularyReviewer.__init__ (an empty selection ends the session).
RunSession ==
    \E vocab \in SessionVocab :
        \E sampled \in random_sample(Len(vocab), sample_size(vocab)) :
            LET selection == select_words_by_priority(word_stats, now, vocab, 20, sampled)
                selected_vocab == selection.returned
            IN /\ reviewer.view = "none"
               /\ reviewer.ended_by = "none"
               /\ sel' = selection
               /\ last_priority' = NoPriority
               /\ IF selected_vocab = <<>>
                  THEN /\ word_stats' = stats_after_select(word_stats, vocab, sampled)
                       /\ reviewer' = [reviewer EXCEPT !.ended_by = "no_words"]
                       /\ UNCHANGED <<last_mark, disk>>
                  ELSE /\ word_stats' = mark_selected_used(stats_after_select(word_stats, vocab, sampled),
                                                           now, selected_vocab)
                       /\ last_mark' = LastMarkOf(selected_vocab, FALSE)
                       /\ disk' = [disk EXCEPT !.fresh = FALSE]
                       /\ reviewer' = [NoReviewer EXCEPT !.view = "start",
                                                         !.vocab_list = reviewer_vocab_list(selected_vocab)]
               /\ UNCHANGED <<tracking_file, now>>

\* "Pass on to Vocabulary" / "Review Vocabulary"
setup_tile_view ==
    /\ reviewer.view = "start"
    /\ reviewer' = [reviewer EXCEPT !.view = "tiles"]
    /\ UNCHANGED <<tracking_file, word_stats, now, last_priority, sel, last_mark, disk>>

\* A click on a tile; `toggled` keeps the pairs the user clicked an odd number of times.
toggle_tile ==
    \E i \in 1..Min(20, Len(reviewer.vocab_list)) :
        LET word == <<reviewer.vocab_list[i][1], reviewer.vocab_list[i][2]>> IN
        /\ reviewer.view = "tiles"
        /\ reviewer' = [reviewer EXCEPT
                           !.difficult_words = IF word \in @ THEN @ \ {word} ELSE @ \cup {word},
                           !.toggled = IF word \in @ THEN @ \ {word} ELSE @ \cup {word}]
        /\ UNCHANGED <<tracking_file, word_stats, now, last_priority, sel, last_mark, disk>>

\* "Continue". The chart it draws reads calculate_word_priority for the records
\* of the store, which leaves a store of well-formed records as it is.
check_feedback ==
    /\ reviewer.view = "tiles"
    /\ reviewer' = [reviewer EXCEPT
                       !.difficult_words = IF @ = {} THEN DebugWords ELSE @,
                       !.save_allowed = TRUE,
                       !.view = "feedback"]
    /\ UNCHANGED <<tracking_file, word_stats, now, last_priority, sel, last_mark, disk>>

\* save_and_exit pressed as `button`: the marks, the save, and, when the save
\* returned, the end of the session. When the save raises, Tk reports the error
\* of the callback and the window stays as it is.
SaveAndExit(button) ==
    \E outcome \in SaveOutcomes :
        LET marked == IF reviewer.save_allowed
                      THEN record_feedback(word_stats, now, reviewer.vocab_list, reviewer.difficult_words)
                      ELSE word_stats
            saved == save_tracking_data(tracking_file, marked, outcome)
            last == reviewer.vocab_list[Len(reviewer.vocab_list)]
        IN /\ reviewer.view = "feedback"
           /\ reviewer.finish_presses < MaxFinish
           /\ word_stats' = marked
           /\ IF reviewer.save_allowed
              THEN /\ tracking_file' = saved.file
                   /\ last_mark' = LastMarkOf(reviewer.vocab_list,
                                              <<last[1], last[2]>> \in reviewer.difficult_words)
                   /\ disk' = [disk EXCEPT !.save_calls = @ + 1, !.outcome = outcome,
                                           !.save_raised = saved.raised, !.fresh = FALSE]
              ELSE UNCHANGED <<tracking_file, last_mark, disk>>
           /\ reviewer' = IF reviewer.save_allowed /\ saved.raised
                          THEN [reviewer EXCEPT !.finish_presses = @ + 1]
                          ELSE [reviewer EXCEPT !.finish_presses = @ + 1,
                                                !.push = IF reviewer.save_allowed THEN "running" ELSE @,
                                                !.review_complete = TRUE,
                                                !.view = "closed",
                                                !.ended_by = button]
           /\ UNCHANGED <<now, last_priority, sel>>

\* "Finish"
save_and_exit == reviewer.view = "feedback" /\ SaveAndExit("finish")

\* "Generate New Text"
generate_new_text == reviewer.view = "feedback" /\ SaveAndExit("generate")

\* An on_close that saves the store before leaving.
on_close_saving ==
    /\ reviewer.view \in {"start", "tiles", "feedback"}
    /\ reviewer' = [reviewer EXCEPT !.review_complete = FALSE, !.view = "closed", !.ended_by = "close"]
    /\ tracking_file' = save_tracking_data(tracking_file, word_stats, "ok").file
    /\ disk' = [disk EXCEPT !.save_calls = @ + 1, !.outcome = "ok", !.fresh = FALSE]
    /\ UNCHANGED <<word_stats, now, last_priority, sel, last_mark>>
\* The window is closed (WM_DELETE_WINDOW).
on_close ==
    /\ reviewer.view \in {"start", "tiles", "feedback"}
    /\ reviewer' = [reviewer EXCEPT !.review_complete = FALSE, !.view = "closed", !.ended_by = "close"]
    /\ UNCHANGED <<tracking_file, word_stats, now, last_priority, sel, last_mark, disk>>

\* The daemon thread started by sync_git_async("push") runs git_commit_and_push
\* to its end (whatever git answers), while the interpreter is alive.
git_commit_and_push ==
    /\ reviewer.push = "running"
    /\ reviewer.process = "running"
    /\ reviewer' = [reviewer EXCEPT !.push = "done"]
    /\ UNCHANGED <<tracking_file, word_stats, now, last_priority, sel, last_mark, disk>>

\* run, after mainloop returned: sys.exit(0) raises SystemExit before the return
\* statement; no caller catches it (they catch Exception), the interpreter
\* exits and a daemon thread still running is abandoned.
run ==
    /\ reviewer.view = "closed"
    /\ reviewer.process = "running"
    /\ reviewer' = [reviewer EXCEPT !.process = "exited",
                                     !.push = IF @ = "running" THEN "abandoned" ELSE @]
    /\ UNCHANGED <<tracking_file, word_stats, now, last_priority, sel, last_mark, disk>>

NextSession ==
    \/ RunSession
    \/ setup_tile_view
    \/ toggle_tile
    \/ check_feedback
    \/ save_and_exit
    \/ generate_new_text
    \/ on_close
    \/ git_commit_and_push
    \/ run

SpecSession == InitSession /\ [][NextSession]_vars

(***************************************************************************)
(* Properties of a session (checked under SpecSession).                    *)
(***************************************************************************)

\* The session ended by the closing of the window.
EndedByClose == reviewer.ended_by = "close"

\* Nothing was written: no save call was made and the file is as at the start.
NothingPersisted == disk.save_calls = 0 /\ tracking_file = disk.at_start

FeedbackRecorded ==
    reviewer'.finish_presses = reviewer.finish_presses + 1 /\ reviewer.save_allowed

\* C19 (as claimed): when the round is finished, each entry of the session list
\* gets one more occurrence, with repeat = true exactly when the user has the
\* entry toggled as difficult (toggled an odd number of times), repeat = false
\* otherwise; no toggle at all means no entry recorded as misunderstood.
C19_Claimed ==
    [][FeedbackRecorded =>
          \A i \in 1..Len(reviewer.vocab_list) :
              LET source == reviewer.vocab_list[i][1]
                  target == reviewer.vocab_list[i][2]
                  word_key == Key(source, target)
              IN /\ Len(word_stats'[word_key].occurrences) = Len(word_stats[word_key].occurrences) + 1
                 /\ word_stats'[word_key].occurrences[Len(word_stats'[word_key].occurrences)]
                        = Occ(now, <<source, target>> \in reviewer.toggled)]_vars

(***************************************************************************)
(* SpecOps: every operation of a loaded store, with the clock advancing    *)
(* between them: marks, priority queries, selections, saves.               *)
(***************************************************************************)
InitOps == Init

OpsMarkUsed == last_mark.n < MaxStoreMarks /\ mark_word_used

OpsMarkNotUnderstood == last_mark.n < MaxStoreMarks /\ mark_word_not_understood

OpsPriorityCall == ~last_priority.called /\ PriorityCall

\* The clock advances to the next day, or ten days on.
OpsTick ==
    /\ \E t \in {TicksPerDay, 10 * TicksPerDay} : t > now /\ now' = t
    /\ last_priority' = NoPriority
    /\ sel' = NoSelect
    /\ UNCHANGED <<tracking_file, word_stats, last_mark, disk, reviewer>>

\* A selection of one word out of two candidates.
OpsSelectCall ==
    LET vocab_list == << <<Chat, Cat, Pron>>, <<Bonjour, Hello>> >> IN
    \E sampled \in random_sample(Len(vocab_list), sample_size(vocab_list)) :
        /\ ~sel.called
        /\ sel' = select_words_by_priority(word_stats, now, vocab_list, 1, sampled)
        /\ word_stats' = stats_after_select(word_stats, vocab_list, sampled)
        /\ last_priority' = NoPriority
        /\ disk' = [disk EXCEPT !.fresh = FALSE]
        /\ UNCHANGED <<tracking_file, now, last_mark, reviewer>>

OpsSave == disk.save_calls < MaxOpsSaves /\ Save

NextOps ==
    \/ OpsMarkUsed
    \/ OpsMarkNotUnderstood
    \/ OpsPriorityCall
    \/ OpsTick
    \/ OpsSelectCall
    \/ OpsSave

SpecOps == InitOps /\ [][NextOps]_vars

(***************************************************************************)
(* Properties of the operations of a loaded store (checked under SpecOps). *)
(***************************************************************************)

IsPrefix(s, t) == Len(s) <= Len(t) /\ SubSeq(t, 1, Len(s)) = s

\* How many occurrences the record under `key` held when the store was loaded.
LoadedLen(key) ==
    LET loaded == load_tracking_data(disk.at_start) IN
    IF key \in DOMAIN loaded THEN Len(loaded[key].occurrences) ELSE 0

\* One operation keeps every record, its occurrences a prefix of the new ones.
HistoryKept ==
    \A key \in DOMAIN word_stats :
        /\ key \in DOMAIN word_stats'
        /\ IsPrefix(word_stats[key].occurrences, word_stats'[key].occurrences)

\* The occurrences appended since the load stand in non-decreasing date order.
AppendedInDateOrder ==
    \A key \in DOMAIN word_stats :
        \A i, j \in (LoadedLen(key) + 1)..Len(word_stats[key].occurrences) :
            i < j => word_stats[key].occurrences[i].date <= word_stats[key].occurrences[j].date

\* C21: the history is append-only: over every operation of a loaded store
\* (the two marks, a priority query, a selection, a save) each record's
\* occurrences before are a prefix of its occurrences after; and, the clock never
\* going back, the appended occurrences are in non-decreasing date order.
C21_AppendOnly ==
    /\ [][HistoryKept]_vars
    /\ []AppendedInDateOrder

C21_Witness ==
    /\ sel.called
    /\ disk.save_calls > 0
    /\ last_mark.n = 2
    /\ LoadedLen(Key(Chat, Cat)) = 2
    /\ Len(word_stats[Key(Chat, Cat)].occurrences) = 4
    /\ word_stats[Key(Chat, Cat)].occurrences[3].date < word_stats[Key(Chat, Cat)].occurrences[4].date

\* The step is a mark_word_used or mark_word_not_understood call.
IsMarkStep == last_mark'.n = last_mark.n + 1

\* C22: a priority query, a selection and a save leave the in-memory store as
\* it is (no key added or removed, no record altered); after load only
\* mark_word_used and mark_word_not_understood change it.
C22_OnlyMarksChangeStore ==
    [][/\ (word_stats' # word_stats) => IsMarkStep
       /\ (last_priority'.called /\ ~IsMarkStep) => word_stats' = word_stats
       /\ sel'.called => word_stats' = word_stats
       /\ (disk'.save_calls # disk.save_calls) => word_stats' = word_stats]_vars

C22_Witness ==
    /\ last_priority.called
    /\ Key(last_priority.word, last_priority.translation) \notin DOMAIN word_stats
    /\ DOMAIN word_stats # {}
    /\ disk.save_calls > 0
    /\ disk.outcome = "ok"
    /\ last_mark.n > 0
    /\ word_stats = tracking_file.data

(***************************************************************************)
(* SpecDates: calculate_word_priority on records whose last occurrence has *)
(* no readable date.                                                       *)
(***************************************************************************)
\* Occurrences a persisted history can hold before its last one.
EarlierOccs ==
    {Occ(0, FALSE), Occ(0, TRUE), BadOcc("date_not_iso", TRUE), BadOcc("not_an_object", FALSE)}

BadLastOccs ==
    {BadOcc(form, repeat) : form \in BadOccForms \ {"not_an_object"}, repeat \in BOOLEAN}
        \cup {BadOcc("not_an_object", FALSE)}

BadHistories ==
    {<<last>> : last \in BadLastOccs}
        \cup {<<a, last>> : a \in EarlierOccs, last \in BadLastOccs}
        \cup {<<a, b, last>> : a \in EarlierOccs, b \in EarlierOccs, last \in BadLastOccs}

InitDates ==
    /\ \E h \in BadHistories :
          /\ tracking_file = [state |-> "object",
                              data |-> (Key(Chat, Cat) :> Entry("record", Chat, Cat, h))]
          /\ word_stats = load_tracking_data(tracking_file)
    /\ now \in Instants
    /\ last_priority = NoPriority
    /\ sel = NoSelect
    /\ last_mark = NoMark
    /\ disk = DiskAtStart(tracking_file)
    /\ reviewer = NoReviewer

DatesPriorityCall == ~last_priority.called /\ PriorityCall

NextDates == DatesPriorityCall

SpecDates == InitDates /\ [][NextDates]_vars

\* C23: when the last occurrence of a record has no date field, a date that is
\* no ISO-8601 string, or is no object at all, calculate_word_priority returns
\* the score computed with days_since_last_use = 999, whose age term is 50:
\* max(50 + 20 * (objects with repeat = true) - min(2 * (occurrences), 30), 1).
C23_UnreadableDateIs999 ==
    (/\ last_priority.called
     /\ CalledKey \in DOMAIN word_stats
     /\ word_stats[CalledKey].occurrences # <<>>
     /\ "date" \notin DOMAIN word_stats[CalledKey].occurrences[Len(word_stats[CalledKey].occurrences)]) =>
        LET O == word_stats[CalledKey].occurrences
            repeats == Cardinality({i \in 1..Len(O) :
                                       /\ ("form" \in DOMAIN O[i] => O[i].form # "not_an_object")
                                       /\ O[i].repeat})
            penalty == IF 2 * Len(O) < 30 THEN 2 * Len(O) ELSE 30
            score == 50 + 20 * repeats - penalty
        IN last_priority.value = IF score > 1 THEN score ELSE 1

C23_Witness ==
    /\ last_priority.called
    /\ CalledKey \in DOMAIN word_stats
    /\ word_stats[CalledKey].occurrences = <<Occ(0, TRUE), BadOcc("no_date", FALSE)>>
    /\ now = 0
    /\ last_priority.value = 66

(***************************************************************************)
(* Properties of the urgency report and of the ranking (under SpecSelect). *)
(***************************************************************************)

\* The bars of the report: one per ranked item, in ranking order, each the
\* integer floor of 40 * priority / (highest priority of the sample), within 0..40.
BarsFollowRanking ==
    /\ Len(sel.report) = Len(sel.word_priorities)
    /\ \A i \in 1..Len(sel.report) :
          LET b == sel.report[i].bar_len
              p == sel.word_priorities[i].priority
              top == sel.word_priorities[1].priority
          IN /\ b \in 0..40
             /\ b * top <= 40 * p
             /\ 40 * p < (b + 1) * top

\* The items marked in the report are the items returned.
MarkedAreReturned ==
    {i \in 1..Len(sel.report) : sel.report[i].marked} = 1..Len(sel.returned)

\* C24 (as claimed): the report has one bar per sampled item in ranking order,
\* each bar floor(40 * priority / max priority) within [0, 40], and for every
\* integer count the marked items are exactly the returned ones.
C24_Claimed ==
    sel.called => (BarsFollowRanking /\ MarkedAreReturned)

(***************************************************************************)
(* SpecKeys: marks and priority queries for pairs whose keys are close:    *)
(* fields that hold the separator '|', and fields that differ only in      *)
(* where the word ends.                                                    *)
(***************************************************************************)
\* Pairs with a '|' in a field: ("a|b", "c") and ("a", "b|c").
BarPairs == { << <<"a", "|", "b">>, <<"c">> >>, << <<"a">>, <<"b", "|", "c">> >> }

\* Pairs without '|': ("ab", "c") and ("a", "bc").
PlainPairs == { << <<"a", "b">>, <<"c">> >>, << <<"a">>, <<"b", "c">> >> }

KeyPairs == BarPairs \cup PlainPairs

KeyFiles ==
    { [state |-> "absent", data |-> EmptyStats],
      [state |-> "object",
       data |-> (<<"a", "b", "|", "c">> :> Entry("record", <<"a", "b">>, <<"c">>, <<Occ(0, TRUE)>>))] }

InitKeys ==
    /\ tracking_file \in KeyFiles
    /\ word_stats = load_tracking_data(tracking_file)
    /\ now = TicksPerDay
    /\ last_priority = NoPriority
    /\ sel = NoSelect
    /\ last_mark = NoMark
    /\ disk = DiskAtStart(tracking_file)
    /\ reviewer = NoReviewer

\* mark_word_used (repeat = FALSE) / mark_word_not_understood (TRUE) for a pair of KeyPairs.
KeysMark(repeat) ==
    \E p \in KeyPairs :
        /\ last_mark.n < MaxStoreMarks
        /\ word_stats' = add_occurrence(word_stats, now, p[1], p[2], repeat)
        /\ last_mark' = MarkCall(p[1], p[2], repeat)
        /\ last_priority' = NoPriority
        /\ disk' = [disk EXCEPT !.fresh = FALSE]
        /\ UNCHANGED <<tracking_file, now, sel, reviewer>>

KeysMarkUsed == last_mark.n < MaxStoreMarks /\ KeysMark(FALSE)

KeysMarkNotUnderstood == last_mark.n < MaxStoreMarks /\ KeysMark(TRUE)

KeysPriorityCall ==
    \E p \in KeyPairs :
        /\ last_priority' = [called |-> TRUE, word |-> p[1], translation |-> p[2],
                             value |-> calculate_word_priority(word_stats, now, p[1], p[2])]
        /\ word_stats' = stats_after_priority(word_stats, p[1], p[2])
        /\ UNCHANGED <<tracking_file, now, sel, last_mark, disk, reviewer>>

NextKeys ==
    \/ KeysMarkUsed
    \/ KeysMarkNotUnderstood
    \/ KeysPriorityCall

SpecKeys == InitKeys /\ [][NextKeys]_vars

(***************************************************************************)
(* Properties of the key derivation (checked under SpecKeys).              *)
(***************************************************************************)

KeyOf(p) == Key(p[1], p[2])

\* Two distinct pairs with one store key.
Collide(p, q) == p # q /\ KeyOf(p) = KeyOf(q)

\* What calculate_word_priority returns for pair p on the store `stats_map`.
PriorityOf(stats_map, p) == calculate_word_priority(stats_map, now, p[1], p[2])

\* The pair the mark call of this step was made for.
MarkedPair == <<last_mark'.word, last_mark'.translation>>

\* A mark for one pair reaches every pair q that collides with it: the shared
\* record ends in the new occurrence, q has the score of that record, and when
\* the step created the record, q went from the 100 of an unknown pair to the
\* score of a pair just recorded.
MarkReachesColliding ==
    IsMarkStep =>
        \A q \in KeyPairs :
            Collide(MarkedPair, q) =>
                LET shared == word_stats'[KeyOf(q)] IN
                /\ KeyOf(q) \in DOMAIN word_stats'
                /\ shared.occurrences[Len(shared.occurrences)] = Occ(now, last_mark'.repeat)
                /\ Len(shared.occurrences) =
                       (IF KeyOf(q) \in DOMAIN word_stats
                        THEN Len(word_stats[KeyOf(q)].occurrences) ELSE 0) + 1
                /\ PriorityOf(word_stats', q) = PriorityOf(word_stats', MarkedPair)
                /\ PriorityOf(word_stats', q) = recorded_priority(shared.occurrences, now)
                /\ KeyOf(q) \notin DOMAIN word_stats =>
                       (PriorityOf(word_stats, q) = 100 /\ PriorityOf(word_stats', q) < 100)

PlainStrings ==
    {<<>>} \cup {<<x>> : x \in {"a", "b"}} \cup {<<x, y>> : x \in {"a", "b"}, y \in {"a", "b"}}

NoBarIn(s) == \A i \in 1..Len(s) : s[i] # "|"

\* A mark for a pair without '|' leaves every other pair alone: its record (or
\* its absence) and its priority.
MarkLeavesOthers ==
    (IsMarkStep /\ NoBarIn(MarkedPair[1]) /\ NoBarIn(MarkedPair[2])) =>
        \A q \in KeyPairs \ {MarkedPair} :
            /\ KeyOf(q) # KeyOf(MarkedPair)
            /\ (KeyOf(q) \in DOMAIN word_stats') = (KeyOf(q) \in DOMAIN word_stats)
            /\ KeyOf(q) \in DOMAIN word_stats => word_stats'[KeyOf(q)] = word_stats[KeyOf(q)]
            /\ PriorityOf(word_stats', q) = PriorityOf(word_stats, q)

\* C26: over pairs whose word and translation hold no '|' the key derivation is
\* injective, and a mark for such a pair leaves the record and the priority of
\* every other pair unchanged.
C26_PlainKeysInjective ==
    /\ [](\A w1, t1, w2, t2 \in PlainStrings \cup {<<"a", "b">>, <<"b", "c">>, <<"c">>} :
             Key(w1, t1) = Key(w2, t2) => (w1 = w2 /\ t1 = t2))
    /\ [][MarkLeavesOthers]_vars

C26_Witness ==
    /\ last_mark.n = 2
    /\ last_mark.word = <<"a">>
    /\ last_mark.translation = <<"b", "c">>
    /\ DOMAIN word_stats = {<<"a", "b", "|", "c">>, <<"a", "|", "b", "c">>, <<"a", "|", "b", "|", "c">>}

(***************************************************************************)
(* Properties of the end of a session (checked under SpecSession).         *)
(***************************************************************************)

\* C27 (as claimed): within one session the end-of-round outcome is appended at
\* most once for each entry of the session list, whatever buttons are pressed
\* and whether or not a save fails: besides the occurrences loaded and the use
\* recorded by run_session, an entry holds at most one more occurrence.
C27_Claimed ==
    \A i \in 1..Len(reviewer.vocab_list) :
        LET word_key == Key(reviewer.vocab_list[i][1], reviewer.vocab_list[i][2]) IN
        Len(word_stats[word_key].occurrences) <= LoadedLen(word_key) + 2

\* C28 (as claimed): a push thread is started only after save_tracking_data has
\* returned without error, and a started thread has run to its end when the
\* process exits.
C28_Claimed ==
    /\ reviewer.push # "none" => (disk.outcome = "ok" /\ ~disk.save_raised)
    /\ reviewer.process = "exited" => reviewer.push \in {"none", "done"}

\* C29 (as claimed): run_vocabulary_review returns review_complete to its caller,
\* True after Finish or Generate New Text and False after a closed window, and
\* _run_vocabulary_review reports 'completed and saved' or 'cancelled'.
C29_Claimed ==
    reviewer.process = "exited" =>
        /\ reviewer.ended_by \in {"finish", "generate"} =>
               (reviewer.returned = "true" /\ reviewer.reported = "completed")
        /\ reviewer.ended_by = "close" =>
               (reviewer.returned = "false" /\ reviewer.reported = "cancelled")

\* Where in the drawn sample the candidate at position pos stands.
SampleIndex(pos) == CHOOSE k \in 1..Len(sel.sampled) : sel.sampled[k] = pos

\* C30: for a drawn sample, two sampled items of equal priority stand in the
\* ranking in the order they have in the sample; the returned selection is the
\* head of that ranking and the report has its lines in that order.
C30_TiesKeepSampleOrder ==
    sel.called =>
        /\ \A i, j \in 1..Len(sel.word_priorities) :
              (i < j /\ sel.word_priorities[i].priority = sel.word_priorities[j].priority) =>
                  SampleIndex(sel.word_priorities[i].pos) < SampleIndex(sel.word_priorities[j].pos)
        /\ Len(sel.returned) <= Len(sel.word_priorities)
        /\ \A i \in 1..Len(sel.returned) :
              sel.returned[i] = Triple(sel.vocab_list[sel.word_priorities[i].pos])
        /\ Len(sel.report) = Len(sel.word_priorities)
        /\ \A i, j \in 1..Len(sel.report) :
              sel.word_priorities[i].priority = sel.word_priorities[j].priority =>
                  sel.report[i].bar_len = sel.report[j].bar_len

\* A sample drawn in another order than the candidates', with a tie between a
\* later and an earlier candidate, both returned, and a third item of another priority.
C30_Witness ==
    /\ sel.called
    /\ Len(sel.returned) >= 2
    /\ \E i, j \in 1..Len(sel.returned) :
          /\ i < j
          /\ sel.word_priorities[i].priority = sel.word_priorities[j].priority
          /\ sel.word_priorities[i].pos > sel.word_priorities[j].pos
          /\ sel.returned[i] # sel.returned[j]
    /\ \E i \in 1..Len(sel.word_priorities) :
          sel.word_priorities[i].priority # sel.word_priorities[1].priority

====
